---- MODULE Spec2Model ----
(***************************************************************************)
(* Model of pirc522/rfid.py (class RFID): the register access layer, the   *)
(* command executor card_write, the protocol procedures built on it and    *)
(* the interrupt-driven wait.  The chip and the transport are the          *)
(* environment: every value read from a register is chosen by the chip.    *)
(* One action is one uninterrupted stretch of the control thread, ending   *)
(* where the thread returns to its caller, blocks, or has consumed the     *)
(* chip's answer to one command.                                           *)
(***************************************************************************)
EXTENDS Integers, Sequences, FiniteSets, TLC

VARIABLES
    pin_irq,        \* self.pin_irq: "None" or "pin"
    antenna_gain,   \* self.antenna_gain
    authed,         \* self.authed
    irq,            \* RFID.irq, the threading.Event: TRUE when set
    pc,             \* position of the control thread
    op,             \* the public operation in progress (or just finished)
    loc,            \* locals of the operation in progress
    ret,            \* what the finished operation returned or raised
    bus,            \* the transport since the operation began
    calls,          \* the methods the operation called, in order
    cw,             \* the card_writes of the operation: command, chip answer, polls, result
    peer,           \* a second RFID instance of the process: its thread in wait_for_tag
    ce              \* the chip-select line and the register operation driving it

vars == <<pin_irq, antenna_gain, authed, irq, pc, op, loc, ret, bus, calls, cw, peer, ce>>

---------------------------------------------------------------------------
(* Register addresses, command codes and card commands (class attributes). *)

addr_CommandReg == 1
addr_ComIEnReg == 2
addr_DivIEnReg == 3
addr_ComIrqReq == 4
addr_DivIrqReg == 5
addr_ErrorReg == 6
addr_Status2Reg == 8
addr_FIFODataReg == 9
addr_FIFOLevelReg == 10
addr_ControlReg == 12
addr_BitFramingReg == 13
addr_ModeReg == 17
addr_TxControlReg == 20
addr_TxASKReg == 21
addr_RFCfgReg == 38
addr_TModeReg == 42
addr_TPrescalerReg == 43
addr_TReloadReg2C == 44
addr_TReloadReg2D == 45
addr_CRCResultReg21 == 33
addr_CRCResultReg22 == 34

bit_Tx1RFEn == 1
bit_Tx2RFEn == 2

mode_idle == 0
mode_auth == 14
mode_transrec == 12
mode_reset == 15
mode_crc == 3

auth_a == 96
auth_b == 97

act_read == 48
act_write == 160
act_reqidl == 38
act_anticl == 147
act_anticl2 == 149
act_select == 147
act_end == 80

length == 16

\* i = 2000 (card_write) and i = 255 (calculate_crc)
PollBudget == 2000
CrcBudget == 255

\* irq.wait(0.1), in clock ticks of 0.05 s
Slice == 2

---------------------------------------------------------------------------
(* Bounds of the model.                                                    *)

\* iterations of the wait_for_tag loop explored when timeout = 0
MaxWaitIters == 3
\* the largest timeout passed to wait_for_tag, in clock ticks
MaxTimeout == 3

---------------------------------------------------------------------------
(* Python's integer operators on the values the code applies them to.      *)

RECURSIVE BitAnd(_, _)
BitAnd(a, b) ==
    IF a = 0 \/ b = 0 THEN 0
    ELSE ((a % 2) * (b % 2)) + (2 * BitAnd(a \div 2, b \div 2))

RECURSIVE BitXor(_, _)
BitXor(a, b) ==
    IF a = 0 THEN b
    ELSE IF b = 0 THEN a
    ELSE (((a % 2) + (b % 2)) % 2) + (2 * BitXor(a \div 2, b \div 2))

\* a | b on non-negative ints
BitOr(a, b) == (a + b) - BitAnd(a, b)

\* ~x on a Python int
BitNot(x) == 0 - x - 1

\* a bool as the int it is (True == 1, False == 0)
PyBool(b) == IF b THEN 1 ELSE 0

\* truth value of an int
Truthy(x) == x # 0

\* x and y: the first operand when it is false, else the second
PyAnd(x, y) == IF Truthy(x) THEN y ELSE x

\* Python integers are unbounded; the model keeps one as its base-65536
\* digits, least significant first, without leading zeros (0 is <<>>).
Limb == 65536

\* x * 256 + carry
RECURSIVE BigShiftAdd(_, _)
BigShiftAdd(x, carry) ==
    IF Len(x) = 0 THEN (IF carry = 0 THEN <<>> ELSE <<carry>>)
    ELSE LET v == (x[1] * 256) + carry
         IN  <<v % Limb>> \o BigShiftAdd(Tail(x), v \div Limb)

\* int.from_bytes(s, 'big'): result = result * 256 + byte, first byte first
RECURSIVE FromBytesBig(_)
FromBytesBig(s) ==
    IF Len(s) = 0 THEN <<>>
    ELSE BigShiftAdd(FromBytesBig(SubSeq(s, 1, Len(s) - 1)), s[Len(s)])

---------------------------------------------------------------------------
(* Register access layer.  What a stretch of code puts on the transport is *)
(* a record: xfer, the number of transfers (spi.xfer2 calls), and wlog,    *)
(* in order, the frames written to the command, FIFO-data and gain         *)
(* registers.  Stretches run one after the other are joined with Cat.      *)

NoBus == [xfer |-> 0, wlog |-> <<>>]

Join(s, t) == [xfer |-> s.xfer + t.xfer, wlog |-> s.wlog \o t.wlog]

RECURSIVE Cat(_)
Cat(ss) ==
    IF Len(ss) = 0 THEN NoBus
    ELSE IF Len(ss) = 1 THEN ss[1]
    ELSE Join(ss[1], Cat(Tail(ss)))

\* the first frame byte, for every six-bit register address:
\* (address << 1) & 0x7E for a write, ((address << 1) & 0x7E) | 0x80 for a read
WriteByte == [address \in 0..63 |-> BitAnd(address * 2, 126)]

ReadByte == [address \in 0..63 |-> BitOr(BitAnd(address * 2, 126), 128)]

WriteFrame(address, value) == <<WriteByte[address], value>>

ReadFrame(address) == <<ReadByte[address], 0>>

Logged == {WriteByte[a] : a \in {addr_CommandReg, addr_FIFODataReg, addr_RFCfgReg}}

\* one transfer of the two-byte frame data
spi_transfer(data) ==
    [xfer |-> 1, wlog |-> IF data[1] \in Logged THEN <<data>> ELSE <<>>]

dev_write(address, value) == spi_transfer(WriteFrame(address, value))

\* the transfer of a register read; the byte read is the chip's to choose
dev_read(address) == spi_transfer(ReadFrame(address))

\* read-modify-write of a register whose writes are not logged: the value
\* written back is current | mask, resp. current & ~mask
set_bitmask(address, mask) == Join(dev_read(address), dev_write(address, mask))

clear_bitmask(address, mask) == Join(dev_read(address), dev_write(address, 0))

\* the for loop writing data[0..] to one register
WriteAll(address, data) ==
    [xfer |-> Len(data),
     wlog |-> IF WriteByte[address] \in Logged
              THEN [k \in 1..Len(data) |-> WriteFrame(address, data[k])]
              ELSE <<>>]

\* n reads of one register in a row (a busy-wait loop, a FIFO drain)
ReadN(address, n) == [xfer |-> n, wlog |-> <<>>]

disable_interrupts ==
    Cat(<<dev_write(addr_ComIrqReq, 20), dev_write(addr_ComIEnReg, 128),
          dev_write(addr_DivIEnReg, 0), dev_write(addr_DivIrqReg, 0)>>)

reset == dev_write(addr_CommandReg, mode_reset)

\* set_antenna(True); current is the byte the chip returns for TxControlReg
set_antenna_on(current) ==
    LET val == BitOr(bit_Tx1RFEn, bit_Tx2RFEn)
    IN  IF Truthy(BitNot(BitAnd(current, val)))
        THEN Join(dev_read(addr_TxControlReg), set_bitmask(addr_TxControlReg, val))
        ELSE dev_read(addr_TxControlReg)

\* GainOk with the upper limit off by one: the variant C8 must tell apart
GainOk_upto8(gain) == 0 <= gain /\ gain <= 8

\* line 204: if 0 <= gain <= 7
GainOk(gain) == 0 <= gain /\ gain <= 7

\* line 206: what set_antenna_gain writes for a gain in range
gain_write(gain) == dev_write(addr_RFCfgReg, gain * 16)

\* lines 158-165 of init(): all that precedes set_antenna_gain
init_head ==
    Cat(<<reset, disable_interrupts,
          dev_write(addr_TModeReg, 141), dev_write(addr_TPrescalerReg, 62),
          dev_write(addr_TReloadReg2D, 30), dev_write(addr_TReloadReg2C, 0),
          dev_write(addr_TxASKReg, 64), dev_write(addr_ModeReg, 61)>>)

\* init(), with a gain the range check accepts (the constructor has run
\* the same check through init)
init(gain, current) ==
    Cat(<<init_head, gain_write(gain), set_antenna_on(current)>>)

---------------------------------------------------------------------------
(* The chip's answer to one command.  The interrupt-request register shows *)
(* the timer bit 0x01 from poll timerAt on and the bits doneBits from poll *)
(* doneAt on (Never: on no poll of the budget); err is the error register, *)
(* level the FIFO level register, ctrl the control register, data the      *)
(* bytes the FIFO hands out (0 once it has run dry).                       *)

Never == PollBudget + 1

PollTimes == {1, PollBudget - 1, PollBudget, Never}

Streams ==
    {[timerAt |-> t, doneAt |-> d, doneBits |-> w] :
        t \in {1, Never}, d \in PollTimes, w \in {16, 32}}

IrqAt(s, j) ==
    (IF j >= s.timerAt THEN 1 ELSE 0) + (IF j >= s.doneAt THEN s.doneBits ELSE 0)

\* line 243, as Python evaluates it:
\*   if ~((i != 0) and ~(n & 0x01) and ~(n & irq_wait)): break
PollBreak(i, n, irq_wait) ==
    Truthy(BitNot(PyAnd(PyAnd(PyBool(i # 0), BitNot(BitAnd(n, 1))),
                        BitNot(BitAnd(n, irq_wait)))))

\* the number of polls the loop of lines 239-244 makes: i counts down from
\* the budget, one poll per iteration, and the loop ends at the first
\* iteration whose break test is true
PollCount(s, irq_wait) ==
    CHOOSE j \in 1..PollBudget :
        /\ PollBreak(PollBudget - j, IrqAt(s, j), irq_wait)
        /\ \A k \in 1..(j - 1) : ~PollBreak(PollBudget - k, IrqAt(s, k), irq_wait)

IrqWaits == {0, 16, 48}

PollTable == [s \in Streams, w \in IrqWaits |-> PollCount(s, w)]

irq_of(command) ==
    IF command = mode_transrec THEN 119 ELSE IF command = mode_auth THEN 18 ELSE 0

irq_wait_of(command) ==
    IF command = mode_transrec THEN 48 ELSE IF command = mode_auth THEN 16 ELSE 0

FifoByte(data, k) == IF k <= Len(data) THEN data[k] ELSE 0

\* the bit length without the last-bits field: the variant C19 must tell
\* apart
back_length_of_whole(n, last_bits) == n * 8

\* lines 259-262: the bit length, from the FIFO level n and the last-bits
\* field of the control register
back_length_of(n, last_bits) ==
    IF last_bits # 0 THEN ((n - 1) * 8) + last_bits ELSE n * 8

\* drain_count reading one byte less: the variant C11 must tell apart
drain_count_less(n) == IF n > length THEN length ELSE n - 1

\* lines 264-268: the number of bytes drained from the FIFO
drain_count(n) ==
    IF (IF n = 0 THEN 1 ELSE n) > length THEN length
    ELSE (IF n = 0 THEN 1 ELSE n)

\* card_write(command, data) with the chip answering a: what it puts on the
\* bus, the returned triple, the polls made and the last interrupt-request
\* byte read
card_write(command, data, a) ==
    LET irqm == irq_of(command)
        irq_wait == irq_wait_of(command)
        polls == PollTable[a.stream, irq_wait]
        i == PollBudget - polls
        n == IrqAt(a.stream, polls)
        \* lines 226-246
        sent == Cat(<<dev_write(addr_ComIEnReg, BitOr(irqm, 128)),
                      clear_bitmask(addr_ComIrqReq, 128),
                      set_bitmask(addr_FIFOLevelReg, 128),
                      dev_write(addr_CommandReg, mode_idle),
                      WriteAll(addr_FIFODataReg, data),
                      dev_write(addr_CommandReg, command),
                      IF command = mode_transrec
                      THEN set_bitmask(addr_BitFramingReg, 128) ELSE NoBus,
                      ReadN(addr_ComIrqReq, polls),
                      clear_bitmask(addr_BitFramingReg, 128)>>)
        \* if i != 0: the command completed within the budget
        done == i # 0
        \* (ErrorReg & 0x1B) == 0x00
        clean == BitAnd(a.err, 27) = 0
        e1 == Truthy(BitAnd(BitAnd(n, irqm), 1))
        drains == done /\ clean /\ (command = mode_transrec)
        last_bits == BitAnd(a.ctrl, 7)
        bits == back_length_of(a.level, last_bits)
        nread == drain_count(a.level)
    IN  [bus |-> Cat(<<sent,
                       IF done THEN dev_read(addr_ErrorReg) ELSE NoBus,
                       IF drains
                       THEN Cat(<<dev_read(addr_FIFOLevelReg),
                                  dev_read(addr_ControlReg),
                                  ReadN(addr_FIFODataReg, nread)>>)
                       ELSE NoBus>>),
         error |-> IF done THEN (IF clean THEN e1 ELSE TRUE) ELSE FALSE,
         back_data |-> IF drains THEN [k \in 1..nread |-> FifoByte(a.data, k)]
                       ELSE <<>>,
         back_length |-> IF drains THEN bits ELSE 0,
         command |-> command, data |-> data, stream |-> a.stream,
         err |-> a.err, level |-> a.level, ctrl |-> a.ctrl,
         polls |-> polls, i |-> i, n |-> n]

---------------------------------------------------------------------------
(* calculate_crc(data): the CRC coprocessor shows the done bit 0x04 in the *)
(* DivIrq register from poll doneAt on; lo and hi are the result           *)
(* registers 0x22 and 0x21.                                                *)

CrcNever == CrcBudget + 1

CrcTimes == {1, CrcNever}

DivIrqAt(doneAt, j) == IF j >= doneAt THEN 4 ELSE 0

\* line 399 without the test of the done bit: the variant C18 must tell
\* apart
CrcBreak_budgetonly(i, n) == i = 0

\* line 399: if not ((i != 0) and not (n & 0x04)): break
CrcBreak(i, n) == ~((i # 0) /\ ~Truthy(BitAnd(n, 4)))

\* the number of polls the loop of lines 395-400 makes
CrcPollCount(doneAt) ==
    CHOOSE j \in 1..CrcBudget :
        /\ CrcBreak(CrcBudget - j, DivIrqAt(doneAt, j))
        /\ \A k \in 1..(j - 1) : ~CrcBreak(CrcBudget - k, DivIrqAt(doneAt, k))

\* the polls at which a chip may first show the done bit to calculate_crc
\* called on its own
WideCrcTimes == {1, 2, CrcBudget - 1, CrcBudget, CrcNever}

CrcPollTable == [d \in WideCrcTimes |-> CrcPollCount(d)]

calculate_crc(data, c) ==
    LET polls == CrcPollTable[c.doneAt]
    IN  [bus |-> Cat(<<clear_bitmask(addr_DivIrqReg, 4),
                       set_bitmask(addr_FIFOLevelReg, 128),
                       WriteAll(addr_FIFODataReg, data),
                       dev_write(addr_CommandReg, mode_crc),
                       ReadN(addr_DivIrqReg, polls),
                       dev_read(addr_CRCResultReg22),
                       dev_read(addr_CRCResultReg21)>>),
         ret_data |-> <<c.lo, c.hi>>,
         polls |-> polls]

---------------------------------------------------------------------------
(* The answers the chip is let to give.                                    *)

\* anti-collision frames: four serial bytes and a fifth byte that is their
\* XOR (a valid frame) or not
XorSum(s) == BitXor(BitXor(BitXor(s[1], s[2]), s[3]), s[4])

UidFrames ==
    {<<b0, b1, 18, 165, BitXor(k, XorSum(<<b0, b1, 18, 165>>))>> :
        b0 \in {136, 4}, b1 \in {0, 255}, k \in {0, 1}}

\* a data block of 16 bytes
BlockData == <<1, 2, 3, 4, 5, 6, 7, 8, 9, 10, 11, 12, 13, 14, 15, 16>>

Fifos ==
    {[level |-> 5, ctrl |-> 0, data |-> d] : d \in UidFrames}
    \cup {[level |-> 1, ctrl |-> c, data |-> d] :
            c \in {0, 20}, d \in {<<10>>, <<26>>, <<5>>}}
    \cup {[level |-> l, ctrl |-> 0, data |-> BlockData] : l \in {2, 3, 16, 17}}
    \cup {[level |-> 0, ctrl |-> c, data |-> <<>>] : c \in {0, 4}}

\* the command completes on the first poll, with or without the timer bit
CleanStreams ==
    {[timerAt |-> t, doneAt |-> 1, doneBits |-> 16] : t \in {1, Never}}

\* every stream with an acknowledge in the FIFO, and every FIFO content and
\* error register after a prompt completion
ChipAnswers ==
    {[stream |-> s, err |-> 0, level |-> 1, ctrl |-> 4, data |-> <<10>>] :
        s \in Streams}
    \cup
    {[stream |-> s, err |-> e, level |-> f.level, ctrl |-> f.ctrl, data |-> f.data] :
        s \in CleanStreams, e \in {0, 8}, f \in Fifos}

CrcAnswers ==
    {[doneAt |-> d, lo |-> 99, hi |-> 7] : d \in CrcTimes}

\* the byte the chip returns for a plain register read
RegBytes == {0, 8}

---------------------------------------------------------------------------
(* Protocol procedures, each as the function of the chip's answers that    *)
(* the code computes: the bus afterwards, the values returned, and the     *)
(* card_write result r it rests on.                                        *)

request(req_mode, a) ==
    LET r == card_write(mode_transrec, <<req_mode>>, a)
        bad == r.error \/ (r.back_length # 16)
    IN  [bus |-> Join(dev_write(addr_BitFramingReg, 7), r.bus), error |-> bad,
         back_bits |-> IF bad THEN 0 ELSE r.back_length, r |-> r]

\* SerialCheck without the comparison of the fifth byte: the variant C5
\* must tell apart
SerialCheck_lenonly(error, back_data) ==
    IF ~error THEN Len(back_data) # 5 ELSE error

\* lines 348-356, shared by anticoll and anticoll2
SerialCheck(error, back_data) ==
    IF ~error
    THEN IF Len(back_data) = 5
         THEN XorSum(back_data) # back_data[5]
         ELSE TRUE
    ELSE error

anticoll(a) ==
    LET r == card_write(mode_transrec, <<act_anticl, 32>>, a)
    IN  [bus |-> Join(dev_write(addr_BitFramingReg, 0), r.bus),
         error |-> SerialCheck(r.error, r.back_data),
         back_data |-> r.back_data, r |-> r]

anticoll2(a) ==
    LET r == card_write(mode_transrec, <<act_anticl2, 32>>, a)
    IN  [bus |-> Join(dev_write(addr_BitFramingReg, 0), r.bus),
         error |-> SerialCheck(r.error, r.back_data),
         back_data |-> r.back_data, r |-> r]

\* select_tag(uid) for a uid of at least five bytes
select_tag(uid, c, a) ==
    LET buf == <<act_select, 112>> \o SubSeq(uid, 1, 5)
        crc == calculate_crc(buf, c)
        r == card_write(mode_transrec, buf \o crc.ret_data, a)
    IN  [bus |-> Join(crc.bus, r.bus),
         error |-> ~((~r.error) /\ (r.back_length = 24)),
         r |-> r]

\* card_auth; status is the byte read from Status2Reg after the command
card_auth(auth_mode, block_address, key, uid, a, status) ==
    LET buf == <<auth_mode, block_address>> \o key \o SubSeq(uid, 1, 4)
        r == card_write(mode_auth, buf, a)
        error == IF ~(BitAnd(status, 8) # 0) THEN TRUE ELSE r.error
    IN  [bus |-> Join(r.bus, dev_read(addr_Status2Reg)), error |-> error, r |-> r]

\* card_auth leaving the flag as it was: the variant C7 must tell apart
authed_after_kept(error, was) == was

\* lines 456-457: if not error: self.authed = True
authed_after(error, was) == IF ~error THEN TRUE ELSE was

stop_crypto == clear_bitmask(addr_Status2Reg, 8)

halt(c, a) ==
    LET buf == <<act_end, 0>>
        crc == calculate_crc(buf, c)
        r == card_write(mode_transrec, buf, a)
    IN  [bus |-> Cat(<<crc.bus, clear_bitmask(addr_Status2Reg, 128), r.bus,
                       clear_bitmask(addr_Status2Reg, 8)>>),
         r |-> r]

read(block_address, c, a) ==
    LET buf == <<act_read, block_address>>
        crc == calculate_crc(buf, c)
        r == card_write(mode_transrec, buf \o crc.ret_data, a)
    IN  [bus |-> Join(crc.bus, r.bus),
         error |-> IF Len(r.back_data) # 16 THEN TRUE ELSE r.error,
         back_data |-> r.back_data, r |-> r]

\* AckCheck without the test of the low nibble: the variant C6 must tell
\* apart
AckCheck_bitsonly(error, back_data, back_length) ==
    IF ~(back_length = 4) THEN [error |-> TRUE, faults |-> FALSE]
    ELSE [error |-> error, faults |-> FALSE]

\* lines 509-510 and 521-522; faults is TRUE where back_data[0] is read
\* from an empty list
AckCheck(error, back_data, back_length) ==
    IF ~(back_length = 4) THEN [error |-> TRUE, faults |-> FALSE]
    ELSE IF Len(back_data) = 0 THEN [error |-> error, faults |-> TRUE]
    ELSE IF ~(BitAnd(back_data[1], 15) = 10) THEN [error |-> TRUE, faults |-> FALSE]
    ELSE [error |-> error, faults |-> FALSE]

\* write, first phase: [0xA0, block] + CRC
write_cmd(block_address, c, a) ==
    LET buf == <<act_write, block_address>>
        crc == calculate_crc(buf, c)
        r == card_write(mode_transrec, buf \o crc.ret_data, a)
        ack == AckCheck(r.error, r.back_data, r.back_length)
    IN  [bus |-> Join(crc.bus, r.bus), error |-> ack.error, faults |-> ack.faults, r |-> r]

\* write, second phase: the 16 data bytes + CRC
write_data(data, c, a) ==
    LET buf_w == SubSeq(data, 1, 16)
        crc == calculate_crc(buf_w, c)
        r == card_write(mode_transrec, buf_w \o crc.ret_data, a)
        ack == AckCheck(r.error, r.back_data, r.back_length)
    IN  [bus |-> Join(crc.bus, r.bus), error |-> ack.error, faults |-> ack.faults, r |-> r]

---------------------------------------------------------------------------
(* The session and its single control thread.                              *)

NoCw == <<>>

\* the record kept of one card_write: what was sent, what the chip showed
\* and what card_write returned
CwRec(r) ==
    [command |-> r.command, data |-> r.data, stream |-> r.stream,
     err |-> r.err, level |-> r.level, ctrl |-> r.ctrl,
     polls |-> r.polls, i |-> r.i, n |-> r.n, error |-> r.error,
     back_data |-> r.back_data, back_length |-> r.back_length]

\* name: the method called; a, data, flag: its arguments; pre: the
\* Authenticated flag when the method was called; chip: what the chip
\* answered outside card_write (card_auth: the byte read from Status2Reg;
\* calculate_crc: the poll that first shows the done bit); crc: what the
\* chip holds in CRCResultReg21 and CRCResultReg22 when calculate_crc reads
\* them
NoOp == [name |-> "", a |-> 0, data |-> <<>>, flag |-> FALSE, pre |-> FALSE,
         chip |-> 0, crc |-> [r21 |-> 0, r22 |-> 0]]

\* uid: the first-stage uid read_id holds; elapsed: time.time() - start_time;
\* waited: ticks spent in the current irq.wait; iters: loop iterations begun;
\* firedAt, firedIter: when irq_callback first ran since the initial clear
NoLoc == [uid |-> <<>>, elapsed |-> 0, waited |-> 0, iters |-> 0,
          firedAt |-> 0 - 1, firedIter |-> 0]

\* kind: "" while nothing has returned, "None", "bool" (error), "pair"
\* (error, data or bits), "list" (data), "int" (num), or the exception raised
NoRet == [kind |-> "", error |-> FALSE, data |-> <<>>, bits |-> 0, num |-> <<>>]

RetNone == [NoRet EXCEPT !.kind = "None"]

RetBool(e) == [NoRet EXCEPT !.kind = "bool", !.error = e]

RetPair(e, d, k) == [NoRet EXCEPT !.kind = "pair", !.error = e, !.data = d, !.bits = k]

\* RetUid ignoring as_number: the variant C3 must tell apart
RetUid_list(uid, as_number) == [NoRet EXCEPT !.kind = "list", !.data = uid]

\* lines 299 and 315: int.from_bytes(uid, 'big') if as_number else uid
RetUid(uid, as_number) ==
    IF as_number THEN [NoRet EXCEPT !.kind = "int", !.num = FromBytesBig(uid)]
    ELSE [NoRet EXCEPT !.kind = "list", !.data = uid]

Raise(e) == [NoRet EXCEPT !.kind = e]

\* the arguments the caller is let to pass
GainArgs == {0 - 1, 0, 7, 8}
Blocks == {4}
KeyA == <<255, 255, 255, 255, 255, 255>>
CardUid == <<4, 0, 18, 165, 179>>
Timeouts == {0, 1, MaxTimeout}

\* the second instance: pc, its thread's position (idle, or wait and done
\* of its wait_for_tag); own: its own callback ran since its wait_for_tag
\* cleared the event; timed: its deadline passed
NoPeer == [pc |-> "idle", own |-> FALSE, timed |-> FALSE]

\* pin: pin_ce; level: the output device of the line ("none" without one,
\* "on" released, "off" asserted); todo: the transfers the register
\* operation under way has yet to make; step: the position in spi_transfer;
\* inwin: transfers made, with the line asserted, since it was last
\* asserted; touched: the
\* line was driven
NoCe == [pin |-> 0, level |-> "none", todo |-> 0, step |-> "idle",
         inwin |-> 0, touched |-> FALSE]

Init ==
    /\ pin_irq \in {"None", "pin"}
    /\ antenna_gain = 4
    /\ authed = FALSE
    /\ irq = FALSE
    /\ pc = "idle"
    /\ op = NoOp
    /\ loc = NoLoc
    /\ ret = NoRet
    /\ bus = NoBus
    /\ calls = <<>>
    /\ cw = NoCw
    /\ peer = NoPeer
    /\ ce = NoCe

\* the operation called name(...) returns r, having left the bus at b
Finish(o, r, b, cs, c) ==
    /\ pc' = "done"
    /\ op' = o
    /\ ret' = r
    /\ bus' = b
    /\ calls' = cs
    /\ cw' = c
    /\ loc' = NoLoc

\* the caller takes the result; the next call starts from a fresh log
Return ==
    /\ pc = "done"
    /\ pc' = "idle"
    /\ op' = NoOp
    /\ ret' = NoRet
    /\ bus' = NoBus
    /\ calls' = <<>>
    /\ cw' = NoCw
    /\ loc' = NoLoc
    /\ UNCHANGED <<peer, ce, pin_irq, antenna_gain, authed, irq>>

\* irq_callback, run by the GPIO library when the interrupt line falls
IrqCallback ==
    /\ pin_irq # "None"
    /\ irq = FALSE
    /\ irq' = TRUE
    /\ loc' = IF pc = "wait" /\ loc.firedAt < 0
              THEN [loc EXCEPT !.firedAt = loc.elapsed, !.firedIter = loc.iters]
              ELSE loc
    /\ UNCHANGED <<peer, ce, pin_irq, antenna_gain, authed, pc, op, ret, bus, calls, cw>>

SetAntennaGain ==
    /\ pc = "idle"
    /\ \E gain \in GainArgs :
        LET o == [NoOp EXCEPT !.name = "set_antenna_gain", !.a = gain]
        IN  IF GainOk(gain)
            THEN /\ antenna_gain' = gain
                 /\ Finish(o, RetNone, gain_write(gain), <<>>, NoCw)
            ELSE /\ antenna_gain' = antenna_gain
                 /\ Finish(o, Raise("ValueError"), NoBus, <<>>, NoCw)
    /\ UNCHANGED <<peer, ce, pin_irq, authed, irq>>

InitChip ==
    /\ pc = "idle"
    /\ \E current \in RegBytes :
        Finish([NoOp EXCEPT !.name = "init"], RetNone,
               init(antenna_gain, current), <<"init">>, NoCw)
    /\ UNCHANGED <<peer, ce, pin_irq, antenna_gain, authed, irq>>

\* reset() with the flag cleared on the instance: the variant C16 must tell
\* apart
Reset_clears ==
    /\ pc = "idle"
    /\ authed' = FALSE
    /\ Finish([NoOp EXCEPT !.name = "reset"], RetNone, reset, <<>>, NoCw)
    /\ UNCHANGED <<peer, ce, pin_irq, antenna_gain, irq>>

\* reset(), lines 556-558: `authed = False` binds a local name, the
\* instance's flag is not assigned
Reset ==
    /\ pc = "idle"
    /\ Finish([NoOp EXCEPT !.name = "reset"], RetNone, reset, <<>>, NoCw)
    /\ UNCHANGED <<peer, ce, pin_irq, antenna_gain, authed, irq>>

Request ==
    /\ pc = "idle"
    /\ \E a \in ChipAnswers :
        \E q \in {request(act_reqidl, a)} :
            Finish([NoOp EXCEPT !.name = "request", !.a = act_reqidl],
                   RetPair(q.error, <<>>, q.back_bits), q.bus, <<"card_write">>,
                   <<CwRec(q.r)>>)
    /\ UNCHANGED <<peer, ce, pin_irq, antenna_gain, authed, irq>>

Anticoll ==
    /\ pc = "idle"
    /\ \E a \in ChipAnswers :
        \E q \in {anticoll(a)} :
            Finish([NoOp EXCEPT !.name = "anticoll"],
                   RetPair(q.error, q.back_data, 0), q.bus, <<"card_write">>,
                   <<CwRec(q.r)>>)
    /\ UNCHANGED <<peer, ce, pin_irq, antenna_gain, authed, irq>>

Anticoll2 ==
    /\ pc = "idle"
    /\ \E a \in ChipAnswers :
        \E q \in {anticoll2(a)} :
            Finish([NoOp EXCEPT !.name = "anticoll2"],
                   RetPair(q.error, q.back_data, 0), q.bus, <<"card_write">>,
                   <<CwRec(q.r)>>)
    /\ UNCHANGED <<peer, ce, pin_irq, antenna_gain, authed, irq>>

SelectTag ==
    /\ pc = "idle"
    /\ \E a \in ChipAnswers, c \in CrcAnswers :
        \E q \in {select_tag(CardUid, c, a)} :
            Finish([NoOp EXCEPT !.name = "select_tag", !.data = CardUid],
                   RetBool(q.error), q.bus, <<"calculate_crc", "card_write">>,
                   <<CwRec(q.r)>>)
    /\ UNCHANGED <<peer, ce, pin_irq, antenna_gain, authed, irq>>

CardAuth ==
    /\ pc = "idle"
    /\ \E a \in ChipAnswers, status \in RegBytes, auth_mode \in {auth_a, auth_b},
          block_address \in Blocks :
        \E q \in {card_auth(auth_mode, block_address, KeyA, CardUid, a, status)} :
            /\ authed' = authed_after(q.error, authed)
            /\ Finish([NoOp EXCEPT !.name = "card_auth", !.a = block_address,
                                 !.pre = authed, !.chip = status],
                      RetBool(q.error), q.bus, <<"card_write">>,
                      <<CwRec(q.r)>>)
    /\ UNCHANGED <<peer, ce, pin_irq, antenna_gain, irq>>

StopCrypto ==
    /\ pc = "idle"
    /\ authed' = FALSE
    /\ Finish([NoOp EXCEPT !.name = "stop_crypto", !.pre = authed], RetNone, stop_crypto,
              <<"stop_crypto">>, NoCw)
    /\ UNCHANGED <<peer, ce, pin_irq, antenna_gain, irq>>

Halt ==
    /\ pc = "idle"
    /\ \E a \in ChipAnswers, c \in CrcAnswers :
        \E q \in {halt(c, a)} :
            Finish([NoOp EXCEPT !.name = "halt", !.pre = authed], RetNone, q.bus,
                   <<"calculate_crc", "card_write">>, <<CwRec(q.r)>>)
    /\ authed' = FALSE
    /\ UNCHANGED <<peer, ce, pin_irq, antenna_gain, irq>>

\* cleanup calling stop_crypto whatever the flag: the variant C12 must tell
\* apart
Cleanup_always ==
    /\ pc = "idle"
    /\ authed' = FALSE
    /\ Finish([NoOp EXCEPT !.name = "cleanup", !.pre = authed], RetNone, stop_crypto,
              <<"stop_crypto">>, NoCw)
    /\ UNCHANGED <<peer, ce, pin_irq, antenna_gain, irq>>

Cleanup ==
    /\ pc = "idle"
    /\ IF authed
       THEN /\ authed' = FALSE
            /\ Finish([NoOp EXCEPT !.name = "cleanup", !.pre = authed], RetNone, stop_crypto,
                      <<"stop_crypto">>, NoCw)
       ELSE /\ authed' = authed
            /\ Finish([NoOp EXCEPT !.name = "cleanup", !.pre = authed], RetNone, NoBus, <<>>, NoCw)
    /\ UNCHANGED <<peer, ce, pin_irq, antenna_gain, irq>>

Read ==
    /\ pc = "idle"
    /\ \E a \in ChipAnswers, c \in CrcAnswers, block_address \in Blocks :
        \E q \in {read(block_address, c, a)} :
            Finish([NoOp EXCEPT !.name = "read", !.a = block_address],
                   RetPair(q.error, q.back_data, 0), q.bus,
                   <<"calculate_crc", "card_write">>, <<CwRec(q.r)>>)
    /\ UNCHANGED <<peer, ce, pin_irq, antenna_gain, authed, irq>>

\* write(block_address, data), first phase; the second follows only when
\* the first left error False
WriteCmd ==
    /\ pc = "idle"
    /\ \E a \in ChipAnswers, c \in CrcAnswers, block_address \in Blocks :
        \E q \in {write_cmd(block_address, c, a)} :
        LET o == [NoOp EXCEPT !.name = "write", !.a = block_address,
                              !.data = BlockData]
            cs == <<"calculate_crc", "card_write">>
        IN  IF q.faults
            THEN Finish(o, Raise("IndexError"), q.bus, cs, <<CwRec(q.r)>>)
            ELSE IF q.error
            THEN Finish(o, RetBool(TRUE), q.bus, cs, <<CwRec(q.r)>>)
            ELSE /\ pc' = "write_data"
                 /\ op' = o
                 /\ bus' = q.bus
                 /\ calls' = cs
                 /\ cw' = <<CwRec(q.r)>>
                 /\ UNCHANGED <<loc, ret>>
    /\ UNCHANGED <<peer, ce, pin_irq, antenna_gain, authed, irq>>

WriteData ==
    /\ pc = "write_data"
    /\ \E a \in ChipAnswers, c \in CrcAnswers :
        \E q \in {write_data(op.data, c, a)} :
        LET cs == calls \o <<"calculate_crc", "card_write">>
        IN  IF q.faults
            THEN Finish(op, Raise("IndexError"), Join(bus, q.bus), cs, Append(cw, CwRec(q.r)))
            ELSE Finish(op, RetBool(q.error), Join(bus, q.bus), cs, Append(cw, CwRec(q.r)))
    /\ UNCHANGED <<peer, ce, pin_irq, antenna_gain, authed, irq>>

\* FIFO levels and control-register bytes for a direct card_write
WideLevels == {0, 1, 2, 15, 16, 17, 64}

WideAnswers ==
    {[stream |-> s, err |-> 0, level |-> l, ctrl |-> c, data |-> BlockData] :
        s \in CleanStreams, l \in WideLevels, c \in 0..7}

\* what the chip may answer to calculate_crc called on its own
WideCrcAnswers ==
    {[doneAt |-> d, lo |-> l, hi |-> h] :
        d \in WideCrcTimes, l \in {1, 99}, h \in {7, 99}}

\* calculate_crc(data), called by the application
CalculateCrc ==
    /\ pc = "idle"
    /\ \E c \in WideCrcAnswers, data \in {<<>>, <<act_reqidl>>, <<act_select, 112>>} :
        \E q \in {calculate_crc(data, c)} :
            Finish([NoOp EXCEPT !.name = "calculate_crc", !.data = data,
                                !.chip = c.doneAt,
                                !.crc = [r21 |-> c.hi, r22 |-> c.lo]],
                   [NoRet EXCEPT !.kind = "list", !.data = q.ret_data],
                   q.bus, <<>>, NoCw)
    /\ UNCHANGED <<peer, ce, pin_irq, antenna_gain, authed, irq>>

\* card_write(command, data) called by the user of the class
CardWrite ==
    /\ pc = "idle"
    /\ \E a \in ChipAnswers \cup WideAnswers, command \in {mode_transrec, mode_auth} :
        \E r \in {card_write(command, <<act_reqidl>>, a)} :
            Finish([NoOp EXCEPT !.name = "card_write", !.a = command,
                                !.data = <<act_reqidl>>],
                   RetPair(r.error, r.back_data, r.back_length), r.bus, <<>>,
                   <<CwRec(r)>>)
    /\ UNCHANGED <<peer, ce, pin_irq, antenna_gain, authed, irq>>

\* read_id(as_number): request
ReadIdRequest ==
    /\ pc = "idle"
    /\ \E a \in ChipAnswers, as_number \in BOOLEAN :
        \E q \in {request(act_reqidl, a)} :
        LET o == [NoOp EXCEPT !.name = "read_id", !.flag = as_number]
        IN  IF q.error
            THEN Finish(o, RetNone, q.bus, <<"request">>, <<CwRec(q.r)>>)
            ELSE /\ pc' = "rid_anticoll"
                 /\ op' = o
                 /\ bus' = q.bus
                 /\ calls' = <<"request">>
                 /\ cw' = <<CwRec(q.r)>>
                 /\ UNCHANGED <<loc, ret>>
    /\ UNCHANGED <<peer, ce, pin_irq, antenna_gain, authed, irq>>

\* read_id: first-stage anti-collision and the 4-byte return
ReadIdAnticoll ==
    /\ pc = "rid_anticoll"
    /\ \E a \in ChipAnswers :
        \E q \in {anticoll(a)} :
        LET uid == q.back_data
            cs == Append(calls, "anticoll")
            c2 == Append(cw, CwRec(q.r))
        IN  IF q.error
            THEN Finish(op, RetNone, Join(bus, q.bus), cs, c2)
            ELSE IF uid[1] # 136
            THEN Finish(op, RetUid(SubSeq(uid, 1, 4), op.flag), Join(bus, q.bus), cs, c2)
            ELSE /\ pc' = "rid_select"
                 /\ loc' = [loc EXCEPT !.uid = uid]
                 /\ bus' = Join(bus, q.bus)
                 /\ calls' = cs
                 /\ cw' = c2
                 /\ UNCHANGED <<op, ret>>
    /\ UNCHANGED <<peer, ce, pin_irq, antenna_gain, authed, irq>>

\* read_id: select_tag(uid)
ReadIdSelect ==
    /\ pc = "rid_select"
    /\ \E a \in ChipAnswers, c \in CrcAnswers :
        \E q \in {select_tag(loc.uid, c, a)} :
        LET cs == Append(calls, "select_tag")
            c2 == Append(cw, CwRec(q.r))
        IN  IF q.error
            THEN Finish(op, RetNone, Join(bus, q.bus), cs, c2)
            ELSE /\ pc' = "rid_anticoll2"
                 /\ bus' = Join(bus, q.bus)
                 /\ calls' = cs
                 /\ cw' = c2
                 /\ UNCHANGED <<op, ret, loc>>
    /\ UNCHANGED <<peer, ce, pin_irq, antenna_gain, authed, irq>>

\* real_uid with three bytes of the second stage: the variant C4 must
\* tell apart
real_uid_short(uid, uid2) ==
    SubSeq(uid, 2, Len(uid) - 1) \o SubSeq(uid2, 1, 3)

\* line 314: uid[1:-1] + uid2[:-1]
real_uid(uid, uid2) ==
    SubSeq(uid, 2, Len(uid) - 1) \o SubSeq(uid2, 1, Len(uid2) - 1)

\* read_id: second-stage anti-collision and the 7-byte return
ReadIdAnticoll2 ==
    /\ pc = "rid_anticoll2"
    /\ \E a \in ChipAnswers :
        \E q \in {anticoll2(a)} :
        LET uid2 == q.back_data
            cs == Append(calls, "anticoll2")
            c2 == Append(cw, CwRec(q.r))
        IN  IF q.error
            THEN Finish(op, RetNone, Join(bus, q.bus), cs, c2)
            ELSE Finish(op, RetUid(real_uid(loc.uid, uid2), op.flag),
                        Cat(<<bus, q.bus, disable_interrupts>>),
                        Append(cs, "disable_interrupts"), c2)
    /\ UNCHANGED <<peer, ce, pin_irq, antenna_gain, authed, irq>>

---------------------------------------------------------------------------
(* wait_for_tag(timeout).  The clock advances only while the thread is     *)
(* blocked in irq.wait(0.1): a bus transfer takes no time at this scale.   *)

\* lines 537-538 and 544-545
arm_irq == Join(dev_write(addr_ComIrqReq, 0), dev_write(addr_ComIEnReg, 160))

\* lines 543-551: one pass of the loop body up to irq.wait
rearm(gain, current) ==
    Cat(<<init(gain, current), arm_irq,
          dev_write(addr_FIFODataReg, 38), dev_write(addr_CommandReg, 12),
          dev_write(addr_BitFramingReg, 135)>>)

\* init() and the loop pass, tabulated for every stored gain and every byte
\* the chip may return for TxControlReg
InitBus == [gain \in 0..7, current \in RegBytes |-> init(gain, current)]

RearmBus == [gain \in 0..7, current \in RegBytes |-> rearm(gain, current)]

\* WaitLoops without the deadline: the variant C9 must tell apart
WaitLoops_nodeadline(waiting, timeout, elapsed) == waiting

\* line 531 without the test: the variant C10 must tell apart
irq_unwired_never(p) == FALSE

\* line 531: if self.pin_irq is None
irq_unwired(p) == p = "None"

\* line 542: while waiting and (timeout == 0 or (time.time() - start_time) < timeout)
WaitLoops(waiting, timeout, elapsed) ==
    waiting /\ (timeout = 0 \/ elapsed < timeout)

\* lines 531-542 and the first pass of the loop body
WaitForTag ==
    /\ pc = "idle"
    /\ \E timeout \in Timeouts, current \in RegBytes :
        LET o == [NoOp EXCEPT !.name = "wait_for_tag", !.a = timeout]
            b2 == Join(InitBus[antenna_gain, current], arm_irq)
        IN  IF irq_unwired(pin_irq)
            THEN /\ Finish(o, Raise("NotImplementedError"), NoBus, <<>>, NoCw)
                 /\ irq' = irq
            ELSE /\ irq' = FALSE
                 /\ IF WaitLoops(TRUE, timeout, 0)
                    THEN /\ pc' = "wait"
                         /\ op' = o
                         /\ loc' = [NoLoc EXCEPT !.iters = 1]
                         /\ bus' = Join(b2, RearmBus[antenna_gain, current])
                         /\ calls' = <<"init", "init">>
                         /\ UNCHANGED <<ret, cw>>
                    ELSE Finish(o, RetNone, Join(b2, InitBus[antenna_gain, current]),
                                <<"init", "init">>, NoCw)
    /\ UNCHANGED <<peer, ce, pin_irq, antenna_gain, authed>>

\* a clock tick while the thread sleeps in irq.wait
Tick ==
    /\ pc = "wait"
    /\ ~irq
    /\ loc.waited < Slice
    /\ loc' = [loc EXCEPT !.waited = @ + 1, !.elapsed = @ + 1]
    /\ UNCHANGED <<peer, ce, pin_irq, antenna_gain, authed, irq, pc, op, ret, bus, calls, cw>>

\* irq.wait returns (True when the event is set, False after the slice);
\* then the loop test, and either the next pass or lines 553-554
WaitWake ==
    /\ pc = "wait"
    /\ irq \/ loc.waited = Slice
    /\ \E current \in RegBytes :
        LET waiting == ~irq
        IN  IF WaitLoops(waiting, op.a, loc.elapsed)
            THEN /\ (op.a = 0) => (loc.iters < MaxWaitIters)
                 /\ loc' = [loc EXCEPT !.waited = 0, !.iters = @ + 1]
                 /\ bus' = Join(bus, RearmBus[antenna_gain, current])
                 /\ calls' = Append(calls, "init")
                 /\ UNCHANGED <<pc, op, ret, cw, irq>>
            ELSE /\ irq' = FALSE
                 /\ pc' = "done"
                 /\ ret' = RetNone
                 /\ bus' = Join(bus, InitBus[antenna_gain, current])
                 /\ calls' = Append(calls, "init")
                 /\ loc' = [loc EXCEPT !.waited = 0]
                 /\ UNCHANGED <<op, cw>>
    /\ UNCHANGED <<peer, ce, pin_irq, antenna_gain, authed>>

---------------------------------------------------------------------------

\* RFID(pin_rst, pin_ce, pin_irq, pin_mode, antenna_gain): lines 102-149.
\* given: antenna_gain is not None.  A construction that raises leaves no
\* instance (pc "failed"); bus is what reached the chip before.
PinModes == {"BOARD", "BCM", "GPIO"}

CtorGains == {0 - 1, 0, 3, 7, 8}

Construct ==
    /\ pc = "new"
    /\ \E pin_rst \in {"None", "pin"}, pin_mode \in PinModes, pin \in {"None", "pin"},
          pin_ce \in {0, 8}, given \in BOOLEAN, g \in CtorGains, current \in RegBytes :
        LET gain == IF given THEN g ELSE antenna_gain
            o == [NoOp EXCEPT !.name = "__init__", !.a = gain, !.chip = pin_ce,
                              !.data = <<pin_rst, pin_mode>>]
            line == IF pin_ce # 0 THEN [NoCe EXCEPT !.pin = pin_ce, !.level = "on",
                                                   !.touched = TRUE]
                    ELSE NoCe
        IN  IF pin_rst = "None" \/ pin_mode \notin {"BOARD", "BCM"}
            THEN /\ pc' = "failed"
                 /\ op' = o
                 /\ ret' = Raise("RuntimeError")
                 /\ UNCHANGED <<pin_irq, antenna_gain, ce, bus, calls>>
            ELSE IF ~GainOk(gain)
            THEN /\ pc' = "failed"
                 /\ op' = o
                 /\ ret' = Raise("ValueError")
                 /\ bus' = init_head
                 /\ calls' = <<"init">>
                 /\ pin_irq' = pin
                 /\ antenna_gain' = gain
                 /\ ce' = line
            ELSE /\ pc' = "done"
                 /\ op' = o
                 /\ ret' = RetNone
                 /\ bus' = init(gain, current)
                 /\ calls' = <<"init">>
                 /\ pin_irq' = pin
                 /\ antenna_gain' = gain
                 /\ ce' = line
    /\ UNCHANGED <<authed, irq, loc, cw, peer>>

\* before the constructor runs: the class attributes antenna_gain = 0x04,
\* authed = False and the Event irq, not set
CtorInit ==
    /\ pin_irq = "None"
    /\ antenna_gain = 4
    /\ authed = FALSE
    /\ irq = FALSE
    /\ pc = "new"
    /\ op = NoOp
    /\ loc = NoLoc
    /\ ret = NoRet
    /\ bus = NoBus
    /\ calls = <<>>
    /\ cw = NoCw
    /\ peer = NoPeer
    /\ ce = NoCe

NextCtor ==
    \/ Construct
    \/ Return
    \/ IrqCallback
    \/ SetAntennaGain
    \/ InitChip
    \/ Reset
    \/ StopCrypto
    \/ Cleanup

CtorSpec == CtorInit /\ [][NextCtor]_vars

(* A second instance B of RFID in the same process, with its own pins and  *)
(* its own SPI device.  irq is assigned once, in the class body (line 100) *)
(* and never on self, so self.irq is the same Event in both instances;     *)
(* authed and antenna_gain are assigned on self.  peer is B: pc is where   *)
(* its wait_for_tag stands, own whether B's callback ran since B cleared   *)
(* the event, timed whether B's deadline passed.                           *)

\* B.wait_for_tag(timeout), lines 535-552: irq.clear() and the first pass
PeerWaitForTag ==
    /\ peer.pc = "idle"
    /\ irq' = FALSE
    /\ peer' = [pc |-> "wait", own |-> FALSE, timed |-> FALSE]
    /\ UNCHANGED <<ce, pin_irq, antenna_gain, authed, pc, op, loc, ret, bus, calls, cw>>

\* B.irq_callback, lines 526-528, when B's interrupt line falls
PeerIrqCallback ==
    /\ peer.pc = "wait"
    /\ ~peer.own
    /\ irq' = TRUE
    /\ peer' = [peer EXCEPT !.own = TRUE]
    /\ UNCHANGED <<ce, pin_irq, antenna_gain, authed, pc, op, loc, ret, bus, calls, cw>>

\* B's irq.wait(0.1) ran out and B's deadline has passed (line 542)
PeerTimeout ==
    /\ peer.pc = "wait"
    /\ ~irq
    /\ ~peer.timed
    /\ peer' = [peer EXCEPT !.timed = TRUE]
    /\ UNCHANGED <<ce, pin_irq, antenna_gain, authed, irq, pc, op, loc, ret, bus, calls, cw>>

\* B leaves the loop, because irq.wait returned True or on its deadline,
\* and clears the event (line 553)
PeerWake ==
    /\ peer.pc = "wait"
    /\ irq \/ peer.timed
    /\ irq' = FALSE
    /\ peer' = [peer EXCEPT !.pc = "done"]
    /\ UNCHANGED <<ce, pin_irq, antenna_gain, authed, pc, op, loc, ret, bus, calls, cw>>

\* B's caller takes the result
PeerReturn ==
    /\ peer.pc = "done"
    /\ peer' = NoPeer
    /\ UNCHANGED <<ce, pin_irq, antenna_gain, authed, irq, pc, op, loc, ret, bus, calls, cw>>

\* two instances in one process: A waits, authenticates and sets its gain
\* while B waits
NextPair ==
    \/ Return
    \/ IrqCallback
    \/ SetAntennaGain
    \/ CardAuth
    \/ StopCrypto
    \/ WaitForTag
    \/ Tick
    \/ WaitWake
    \/ PeerWaitForTag
    \/ PeerIrqCallback
    \/ PeerTimeout
    \/ PeerWake
    \/ PeerReturn

PairSpec == Init /\ [][NextPair]_vars

(* spi_transfer step by step, lines 169-175, under the four register       *)
(* operations of lines 177-189.  output_ce.off() drives the line low,      *)
(* which selects the chip; output_ce.on() releases it.                     *)

\* lines 170 and 173 with the test always true: the variant C17 must tell
\* apart
ce_configured_always(pin_ce) == TRUE

\* lines 170 and 173: if self.pin_ce != 0
ce_configured(pin_ce) == pin_ce # 0

RegNames == {"dev_read", "dev_write", "set_bitmask", "clear_bitmask"}

\* what the register operation name(address, ...) puts on the bus
RegBus(name, address) ==
    IF name = "dev_read" THEN dev_read(address)
    ELSE IF name = "dev_write" THEN dev_write(address, 128)
    ELSE IF name = "set_bitmask" THEN set_bitmask(address, 128)
    ELSE clear_bitmask(address, 128)

\* a register operation is called
RegOp ==
    /\ pc = "idle"
    /\ \E name \in RegNames, address \in {addr_CommandReg, addr_BitFramingReg} :
        /\ pc' = "reg"
        /\ op' = [NoOp EXCEPT !.name = name, !.a = address]
        /\ ce' = [ce EXCEPT !.todo = RegBus(name, address).xfer, !.step = "enter"]
    /\ UNCHANGED <<peer, pin_irq, antenna_gain, authed, irq, loc, ret, bus, calls, cw>>

\* lines 170-171
SpiEnter ==
    /\ pc = "reg"
    /\ ce.step = "enter"
    /\ ce' = IF ce_configured(ce.pin)
             THEN [ce EXCEPT !.step = "xfer", !.level = "off", !.inwin = 0,
                             !.touched = TRUE]
             ELSE [ce EXCEPT !.step = "xfer"]
    /\ UNCHANGED <<peer, pin_irq, antenna_gain, authed, irq, pc, op, loc, ret, bus, calls, cw>>

\* line 172: r = self.spi.xfer2(data)
SpiXfer ==
    /\ pc = "reg"
    /\ ce.step = "xfer"
    /\ bus' = [bus EXCEPT !.xfer = @ + 1]
    /\ ce' = [ce EXCEPT !.step = "leave",
                        !.inwin = IF ce.level = "off" THEN @ + 1 ELSE @]
    /\ UNCHANGED <<peer, pin_irq, antenna_gain, authed, irq, pc, op, loc, ret, calls, cw>>

\* lines 173-175; after its last transfer the register operation returns
SpiLeave ==
    /\ pc = "reg"
    /\ ce.step = "leave"
    /\ \E line \in {IF ce_configured(ce.pin)
                     THEN [ce EXCEPT !.level = "on", !.touched = TRUE] ELSE ce} :
        IF ce.todo > 1
        THEN /\ ce' = [line EXCEPT !.todo = @ - 1, !.step = "enter"]
             /\ UNCHANGED <<pc, ret, bus>>
        ELSE /\ ce' = [line EXCEPT !.todo = 0, !.step = "idle"]
             /\ pc' = "done"
             /\ ret' = IF op.name = "dev_read" THEN [NoRet EXCEPT !.kind = "int"]
                       ELSE RetNone
             /\ bus' = RegBus(op.name, op.a)
    /\ UNCHANGED <<peer, pin_irq, antenna_gain, authed, irq, op, loc, calls, cw>>

\* a session is constructed, with or without a chip-select line, and its
\* register operations run
NextCe ==
    \/ Construct
    \/ Return
    \/ RegOp
    \/ SpiEnter
    \/ SpiXfer
    \/ SpiLeave

CeSpec == CtorInit /\ [][NextCe]_vars

Next ==
    \/ Return
    \/ IrqCallback
    \/ SetAntennaGain
    \/ InitChip
    \/ Reset
    \/ CalculateCrc
    \/ CardWrite
    \/ Request
    \/ Anticoll
    \/ Anticoll2
    \/ SelectTag
    \/ CardAuth
    \/ StopCrypto
    \/ Halt
    \/ Cleanup
    \/ Read
    \/ WriteCmd
    \/ WriteData
    \/ ReadIdRequest
    \/ ReadIdAnticoll
    \/ ReadIdSelect
    \/ ReadIdAnticoll2
    \/ WaitForTag
    \/ Tick
    \/ WaitWake

Spec == Init /\ [][Next]_vars

\* the interrupt-driven wait alone, with the clock running and the thread
\* scheduled whenever it can run
NextWait ==
    \/ Return
    \/ IrqCallback
    \/ SetAntennaGain
    \/ WaitForTag
    \/ Tick
    \/ WaitWake

WaitSpec == Init /\ [][NextWait]_vars /\ WF_vars(Tick) /\ WF_vars(WaitWake)


---------------------------------------------------------------------------
(* The claims of the specification, each as a formula over the session.    *)
(* cw[k] is the record of the k-th card_write of the operation under way   *)
(* or just returned.                                                       *)

\* the commands card_write waits for
Polled == {mode_transrec, mode_auth}

\* the bits that, by the specification, end the wait for a command: its
\* wait-for bits (0x30 resp. 0x10) and the timer bit 0x01
EndBits(command) == irq_wait_of(command) + 1

\* the interrupt-request byte of the last poll of the budget; a bit, once
\* shown, stays, so this byte holds every bit any poll of the budget shows
Shown(s) == IrqAt(s, PollBudget)

\* C1: a transceive or authenticate command none of whose polls shows the
\* wait-for bit or the timer bit makes card_write poll exactly 2000 times
\* and return error = true with an empty response list and bit length 0
C1_ExhaustedBudgetIsError ==
    \A k \in 1..Len(cw) :
        (/\ cw[k].command \in Polled
         /\ BitAnd(Shown(cw[k].stream), EndBits(cw[k].command)) = 0)
        => /\ cw[k].polls = PollBudget
           /\ cw[k].error = TRUE
           /\ cw[k].back_data = <<>>
           /\ cw[k].back_length = 0

\* C2: the poll loop of card_write stops at the first poll whose byte has
\* the timer bit 0x01 or the command's wait-for bit set, and keeps polling
\* otherwise while iterations remain: no poll before the last one made
\* shows such a bit, and a loop that ends before the budget is used up
\* ends on a byte that shows one
C2_StopsAtTimerOrWaitBit ==
    \A k \in 1..Len(cw) :
        cw[k].command \in Polled =>
            /\ \A j \in 1..(cw[k].polls - 1) :
                  BitAnd(IrqAt(cw[k].stream, j), EndBits(cw[k].command)) = 0
            /\ (cw[k].polls < PollBudget)
                  => BitAnd(cw[k].n, EndBits(cw[k].command)) # 0

\* a five-byte anti-collision response whose fifth byte is the XOR of the
\* first four, resp. is not
ValidSerial(d) == Len(d) = 5 /\ d[5] = XorSum(d)

BadSerial(d) == Len(d) = 5 /\ d[5] # XorSum(d)

\* byte k, counted from the least significant (k = 0), of the integer num
ByteAt(num, k) ==
    IF (k \div 2) + 1 > Len(num) THEN 0
    ELSE IF k % 2 = 0 THEN num[(k \div 2) + 1] % 256
    ELSE num[(k \div 2) + 1] \div 256

\* num is the integer whose big-endian bytes are s
IsBigEndianOf(num, s) ==
    /\ \A k \in 1..Len(s) : ByteAt(num, Len(s) - k) = s[k]
    /\ \A k \in Len(s)..(2 * Len(num)) : ByteAt(num, k) = 0
    /\ \A l \in 1..Len(num) : num[l] \in 0..(Limb - 1)
    /\ Len(num) > 0 => num[Len(num)] # 0

\* read_id has returned the UID u, in the form as_number asks for
ReturnsUid(u) ==
    /\ pc = "done"
    /\ IF op.flag THEN ret.kind = "int" /\ IsBigEndianOf(ret.num, u)
       ELSE ret.kind = "list" /\ ret.data = u

\* C3, as stated: after a successful request, a first-stage response of 5
\* bytes with a correct checksum whose first byte is not 0x88 makes read_id
\* return response bytes 0..3 (their big-endian integer when as_number),
\* with no select_tag and no second-stage anti-collision
C3_FourByteUid_AsStated ==
    (/\ op.name = "read_id"
     /\ Len(cw) >= 2
     /\ ValidSerial(cw[2].back_data)
     /\ cw[2].back_data[1] # 136)
    => /\ ReturnsUid(SubSeq(cw[2].back_data, 1, 4))
       /\ calls = <<"request", "anticoll">>

\* C3, amended: the same, for a first-stage exchange that card_write itself
\* reports without error (the timer bit was not set in the byte that ended
\* the poll loop)
C3_FourByteUid ==
    (/\ op.name = "read_id"
     /\ Len(cw) >= 2
     /\ ~cw[2].error
     /\ ValidSerial(cw[2].back_data)
     /\ cw[2].back_data[1] # 136)
    => /\ ReturnsUid(SubSeq(cw[2].back_data, 1, 4))
       /\ calls = <<"request", "anticoll">>

\* C3 happens: read_id returned a four-byte UID as an integer
C3_Witness ==
    /\ pc = "done"
    /\ op.name = "read_id"
    /\ op.flag
    /\ Len(cw) = 2
    /\ ~cw[2].error
    /\ ValidSerial(cw[2].back_data)
    /\ cw[2].back_data[1] # 136
    /\ ret.kind = "int"
    /\ ret.num = <<(18 * 256) + 165, 4 * 256>>

\* all four steps of a cascaded read_id succeeded
CascadeSucceeds ==
    /\ op.name = "read_id"
    /\ Len(cw) = 4
    /\ cw[2].back_data[1] = 136
    /\ ~cw[4].error
    /\ ValidSerial(cw[4].back_data)

\* C4, as stated: when the first-stage response starts with 0x88 and all
\* steps succeed, read_id issues exactly one select_tag and one second-stage
\* anti-collision, and returns stage1[1:4] ++ stage2[0:3], a 7-byte UID
C4_SevenByteUid_AsStated ==
    CascadeSucceeds
    => /\ calls = <<"request", "anticoll", "select_tag", "anticoll2",
                    "disable_interrupts">>
       /\ ReturnsUid(SubSeq(cw[2].back_data, 2, 4) \o SubSeq(cw[4].back_data, 1, 3))
       /\ Len(SubSeq(cw[2].back_data, 2, 4) \o SubSeq(cw[4].back_data, 1, 3)) = 7

\* C4, amended: when the first-stage response starts with 0x88 and all
\* steps succeed, read_id issues exactly one select_tag and one second-stage
\* anti-collision, and returns the 7 bytes stage1[1:4] ++ stage2[0:4]
C4_SevenByteUid ==
    CascadeSucceeds
    => /\ calls = <<"request", "anticoll", "select_tag", "anticoll2",
                    "disable_interrupts">>
       /\ ReturnsUid(SubSeq(cw[2].back_data, 2, 4) \o SubSeq(cw[4].back_data, 1, 4))
       /\ Len(SubSeq(cw[2].back_data, 2, 4) \o SubSeq(cw[4].back_data, 1, 4)) = 7

\* C4 happens: a cascaded read_id returned its 7 bytes as a list
C4_Witness ==
    /\ CascadeSucceeds
    /\ pc = "done"
    /\ ~op.flag
    /\ ret.kind = "list"
    /\ Len(ret.data) = 7

\* C5: a 5-byte anti-collision response, of either stage, whose byte 4 is
\* not the XOR of bytes 0..3 makes anticoll/anticoll2 report error = true,
\* and makes read_id return None with that exchange as its last step
C5_BadChecksumIsError ==
    /\ (/\ pc = "done"
        /\ op.name \in {"anticoll", "anticoll2"}
        /\ BadSerial(cw[1].back_data))
       => (ret.kind = "pair" /\ ret.error = TRUE)
    /\ op.name = "read_id"
       => \A k \in 1..Len(cw) :
            (calls[k] \in {"anticoll", "anticoll2"} /\ BadSerial(cw[k].back_data))
            => /\ pc = "done"
               /\ ret = RetNone
               /\ Len(calls) = k

\* C5 happens: the second stage of a read_id, clean on the bus, brought a
\* response with a wrong checksum
C5_Witness ==
    /\ pc = "done"
    /\ op.name = "read_id"
    /\ Len(cw) = 4
    /\ ~cw[4].error
    /\ BadSerial(cw[4].back_data)
    /\ ret = RetNone

\* the first phase of write failed: card_write flagged error, or the
\* response is not exactly 4 bits, or its low nibble is not 0x0A
FirstPhaseFails(c) ==
    \/ c.error
    \/ c.back_length # 4
    \/ (Len(c.back_data) > 0 /\ BitAnd(c.back_data[1], 15) # 10)

IsFifoWrite(f) == f[1] = WriteByte[addr_FIFODataReg]

IsTransceive(f) == f = <<WriteByte[addr_CommandReg], mode_transrec>>

\* the bytes written to the FIFO data register, in order
FifoValues(b) ==
    [k \in 1..Len(SelectSeq(b.wlog, IsFifoWrite)) |->
        SelectSeq(b.wlog, IsFifoWrite)[k][2]]

\* C6: if the first phase of write(block, data) fails, write returns error
\* and the only bytes ever written to the FIFO are those of the first phase
\* ([0xA0, block] for the CRC, then [0xA0, block] + CRC), sent in the one
\* transceive command; the data phase is sent only after a first-phase ACK
C6_NoDataAfterFailedAck ==
    (op.name = "write" /\ Len(cw) >= 1)
    => /\ FirstPhaseFails(cw[1])
          => /\ pc = "done"
             /\ ret = RetBool(TRUE)
             /\ Len(cw) = 1
             /\ SubSeq(cw[1].data, 1, 2) = <<act_write, op.a>>
             /\ FifoValues(bus) = SubSeq(cw[1].data, 1, 2) \o cw[1].data
             /\ Len(SelectSeq(bus.wlog, IsTransceive)) = 1
       /\ Len(cw) >= 2 => ~FirstPhaseFails(cw[1])

\* C6 happens: the first phase brought 4 bits without error, but not the
\* nibble 0x0A, and write returned
C6_Witness ==
    /\ pc = "done"
    /\ op.name = "write"
    /\ Len(cw) = 1
    /\ ~cw[1].error
    /\ cw[1].back_length = 4
    /\ BitAnd(cw[1].back_data[1], 15) # 10
    /\ ret = RetBool(TRUE)

\* C7: whenever card_auth returns success (error false) the Authenticated
\* flag is true right afterwards, and after a halt or stop_crypto the flag
\* is false, whatever the chip answered
C7_AuthenticatedFlag ==
    /\ (pc = "done" /\ op.name = "card_auth" /\ ret = RetBool(FALSE)) => authed
    /\ (pc = "done" /\ op.name \in {"halt", "stop_crypto"}) => ~authed

\* C7 happens: halt, called on an authenticated session, got no completion
\* from the chip and left the flag false
C7_Witness ==
    /\ pc = "done"
    /\ op.name = "halt"
    /\ op.pre
    /\ cw[1].polls = PollBudget
    /\ ~authed

\* C8: set_antenna_gain(g) with g outside 0..7 raises without a transfer
\* and leaves the stored gain as it was; with g in 0..7 it stores g and
\* makes exactly one transfer, the write of g << 4 to the gain register 0x26
\* (frame byte 0x4C); and the stored gain is always in 0..7
C8_AntennaGainRange ==
    /\ [](antenna_gain \in 0..7)
    /\ [][(pc = "idle" /\ pc' = "done" /\ op'.name = "set_antenna_gain")
          => IF op'.a \in 0..7
             THEN /\ antenna_gain' = op'.a
                  /\ ret' = RetNone
                  /\ bus' = [xfer |-> 1, wlog |-> <<<<76, op'.a * 16>>>>]
             ELSE /\ antenna_gain' = antenna_gain
                  /\ ret'.kind = "ValueError"
                  /\ bus' = [xfer |-> 0, wlog |-> <<>>]]_vars

\* C8 happens: set_antenna_gain(8) was rejected
C8_Witness ==
    /\ pc = "done"
    /\ op.name = "set_antenna_gain"
    /\ op.a = 8
    /\ ret.kind = "ValueError"
    /\ bus.xfer = 0

\* the last frames logged on the bus are those of init(): the reset
\* command and the gain
EndsWithInit ==
    /\ Len(calls) > 0
    /\ calls[Len(calls)] = "init"
    /\ Len(bus.wlog) >= 2
    /\ bus.wlog[Len(bus.wlog) - 1] = <<WriteByte[addr_CommandReg], mode_reset>>
    /\ bus.wlog[Len(bus.wlog)] = <<WriteByte[addr_RFCfgReg], antenna_gain * 16>>

\* C9: wait_for_tag(timeout) on a session with an interrupt line.  With
\* timeout > 0 it returns, less than one wait slice after the deadline; once
\* the callback has fired after the initial clear it returns within one
\* slice, without another pass of the loop; with timeout = 0 it returns
\* only if the callback fired; and when it returns, the last thing done on
\* the chip is init()
C9_WaitForTag ==
    /\ []((pc \in {"wait", "done"} /\ op.name = "wait_for_tag" /\ ret.kind # "NotImplementedError")
          => /\ (op.a > 0) => (loc.elapsed < op.a + Slice)
             /\ (loc.firedAt >= 0)
                   => /\ loc.elapsed - loc.firedAt <= Slice
                      /\ loc.iters = loc.firedIter
             /\ (pc = "done" /\ op.a = 0) => (loc.firedAt >= 0)
             /\ (pc = "done") => (ret = RetNone /\ EndsWithInit))
    /\ ((pc = "wait" /\ op.a > 0) ~> (pc = "done"))
    /\ ((pc = "wait" /\ loc.firedAt >= 0) ~> (pc = "done"))

\* C9 happens: wait_for_tag returned on its deadline, no interrupt having
\* come
C9_Witness ==
    /\ pc = "done"
    /\ op.name = "wait_for_tag"
    /\ op.a = MaxTimeout
    /\ loc.firedAt < 0
    /\ loc.elapsed >= op.a
    /\ EndsWithInit

\* C10: on a session without an interrupt line wait_for_tag raises
\* NotImplementedError, which is no normal return, having made no transfer
\* and no init(); such a session never waits
C10_UnsupportedWait ==
    (pin_irq = "None")
    => /\ pc # "wait"
       /\ (pc = "done" /\ op.name = "wait_for_tag")
          => /\ ret = Raise("NotImplementedError")
             /\ ret # RetNone
             /\ bus = NoBus
             /\ calls = <<>>

\* C10 happens: wait_for_tag was called without an interrupt line
C10_Witness ==
    /\ pin_irq = "None"
    /\ pc = "done"
    /\ op.name = "wait_for_tag"
    /\ ret.kind = "NotImplementedError"

\* the protocol procedures
Protocol ==
    {"request", "anticoll", "anticoll2", "select_tag", "card_auth", "read",
     "write", "halt", "read_id"}

\* C11: whatever the chip does, every protocol procedure ends by returning
\* its result value (None, an error flag, a pair, a UID) and raises no
\* fault; the one index into a response, back_data[0] in write, is always
\* in range, since a response of 4 bits has at least one byte
C11_NoFaults ==
    /\ (pc = "done" /\ op.name \in Protocol)
       => ret.kind \in {"None", "bool", "pair", "list", "int"}
    /\ \A k \in 1..Len(cw) :
          (cw[k].back_length = 4) => (Len(cw[k].back_data) >= 1)

\* C11 happens: write got no completion and an empty response, and
\* returned its error flag
C11_Witness ==
    /\ pc = "done"
    /\ op.name = "write"
    /\ cw[1].polls = PollBudget
    /\ cw[1].back_data = <<>>
    /\ ret.kind = "bool"

\* C12: cleanup() calls stop_crypto only when the Authenticated flag is
\* true and always leaves the flag false; a cleanup() on a session whose
\* flag is false (a second cleanup in a row, or a session never
\* authenticated) makes no transfer and changes no session state
C12_CleanupIdempotent ==
    /\ []((pc = "done" /\ op.name = "cleanup")
          => /\ ~authed
             /\ ret = RetNone
             /\ IF op.pre
                THEN calls = <<"stop_crypto">> /\ bus = stop_crypto
                ELSE calls = <<>> /\ bus = NoBus)
    /\ [][(pc = "idle" /\ pc' = "done" /\ op'.name = "cleanup" /\ ~authed)
          => /\ bus'.xfer = 0
             /\ UNCHANGED <<pin_irq, antenna_gain, authed, irq, peer, ce>>]_vars

\* C12 happens: cleanup() returned on a session whose flag was false
C12_Witness ==
    /\ pc = "done"
    /\ op.name = "cleanup"
    /\ ~op.pre
    /\ ~authed
    /\ bus.xfer = 0

\* the constructor was called with a missing reset pin, an unsupported
\* pin-naming mode or a gain outside 0..7
BadConfig ==
    \/ op.data[1] = "None"
    \/ op.data[2] \notin {"BOARD", "BCM"}
    \/ op.a \notin 0..7

\* C13: a construction with a missing reset pin, an unsupported pin mode or
\* an initial antenna gain outside 0..7 fails with a configuration fault,
\* produces no session, and fails before any register transaction is sent
C13_ConfigFaultBeforeChip ==
    (op.name = "__init__" /\ BadConfig)
    => /\ pc = "failed"
       /\ ret.kind \in {"RuntimeError", "ValueError"}
       /\ bus.xfer = 0
       /\ calls = <<>>

\* C14: two sessions A and B are independent.  B's wait_for_tag returns
\* only on B's own interrupt or B's own deadline; an interrupt delivered to
\* A while A waits stays pending until A's wait takes it; and no step of B
\* changes A's Authenticated flag or A's gain
C14_SessionsIndependent ==
    /\ []((peer.pc = "done") => (peer.own \/ peer.timed))
    /\ []((pc = "wait" /\ loc.firedAt >= 0) => irq)
    /\ [][(peer' # peer) => UNCHANGED <<authed, antenna_gain>>]_vars

\* C15: card_auth returns success only if a poll of the authenticate
\* command showed completion within the 2000-poll budget, the error register
\* showed none of the 0x1B bits and status bit 0x08 is set, and then the
\* Authenticated flag is set; in every other case it returns error and
\* leaves the flag as it was
C15_AuthNeedsCompletion ==
    (pc = "done" /\ op.name = "card_auth")
    => IF ret = RetBool(FALSE)
       THEN /\ BitAnd(cw[1].n, irq_wait_of(mode_auth)) # 0
            /\ BitAnd(cw[1].err, 27) = 0
            /\ BitAnd(op.chip, 8) # 0
            /\ authed
       ELSE /\ ret = RetBool(TRUE)
            /\ authed = op.pre

\* C16: the Authenticated flag turns true only in a card_auth call that
\* returns success, and turns false only in halt, stop_crypto or cleanup;
\* every other step, reset, init and a failed card_auth among them, leaves
\* it as it was
C16_AuthedFrame ==
    [][(authed' # authed)
       => /\ pc = "idle"
          /\ pc' = "done"
          /\ IF authed'
             THEN op'.name = "card_auth" /\ ret' = RetBool(FALSE)
             ELSE op'.name \in {"halt", "stop_crypto", "cleanup"}]_vars

\* C16 happens: reset() returned on an authenticated session and the flag
\* is still set
C16_Witness ==
    /\ pc = "done"
    /\ op.name = "reset"
    /\ authed

\* C17: with a chip-select line configured the line is asserted while a
\* transfer is made, a transfer is made only between an assertion and the
\* release that follows it, at most one per assertion, and the line is
\* released whenever no register operation is under way; without a
\* chip-select line no line is ever driven
C17_ChipSelectBracket ==
    /\ []((ce.pin # 0 /\ ce.step \in {"xfer", "leave"}) => (ce.level = "off"))
    /\ [](ce.inwin <= 1)
    /\ []((ce.pin # 0 /\ pc # "reg") => (ce.level = "on"))
    /\ []((ce.pin = 0) => (~ce.touched /\ ce.level = "none"))
    /\ [][(bus'.xfer = bus.xfer + 1 /\ pc = "reg" /\ pc' = "reg" /\ ce.pin # 0)
          => /\ ce.level = "off"
             /\ ce'.level = "off"
             /\ ce.inwin = 0]_vars
    /\ [][(ce.level = "off" /\ ce'.level = "on") => (ce.inwin = 1)]_vars

\* C17 happens: set_bitmask, two transfers, returned on a session with a
\* chip-select line, and the line is released
C17_Witness ==
    /\ pc = "done"
    /\ op.name = "set_bitmask"
    /\ ce.pin # 0
    /\ ce.level = "on"
    /\ bus.xfer = 2

\* the polls of DivIrqReg a returned calculate_crc made: its transfers less
\* the two bitmask operations, the FIFO writes, the command write and the
\* two result reads
CrcPolls == bus.xfer - (2 + 2 + Len(op.data) + 1 + 2)

\* C18: calculate_crc returns after at least one and at most 255 polls of
\* the CRC-done flag, made up to and including the first poll that shows
\* bit 0x04, or 255 polls when none of them shows it; in both cases it
\* returns exactly two bytes, the content of register 0x22 and then the
\* content of register 0x21
C18_CrcTerminates ==
    (pc = "done" /\ op.name = "calculate_crc")
    => /\ CrcPolls \in 1..CrcBudget
       /\ CrcPolls = (IF op.chip <= CrcBudget THEN op.chip ELSE CrcBudget)
       /\ DivIrqAt(op.chip, CrcPolls) = 4 \/ CrcPolls = CrcBudget
       /\ \A j \in 1..(CrcPolls - 1) : DivIrqAt(op.chip, j) = 0
       /\ ret.kind = "list"
       /\ Len(ret.data) = 2
       /\ ret.data = <<op.crc.r22, op.crc.r21>>

\* C18 happens: calculate_crc returned its two bytes although none of its
\* 255 polls showed the done bit
C18_Witness ==
    /\ pc = "done"
    /\ op.name = "calculate_crc"
    /\ op.chip = CrcNever
    /\ CrcPolls = CrcBudget
    /\ op.crc.r22 # op.crc.r21
    /\ Len(ret.data) = 2

\* the k-th card_write was a transceive that completed within the budget,
\* met a clean error register and returned no error
CleanTransceive(k) ==
    /\ cw[k].command = mode_transrec
    /\ cw[k].i # 0
    /\ BitAnd(cw[k].err, 27) = 0
    /\ ~cw[k].error

\* the bit length of the claim, for FIFO level n and control register ctrl
StatedBits(n, ctrl) ==
    IF BitAnd(ctrl, 7) # 0 THEN ((n - 1) * 8) + BitAnd(ctrl, 7) ELSE n * 8

\* the transfers of a card_write that sent data, polled polls times, read
\* the error, level and control registers and drained nread bytes
TransceiveXfers(data, polls, nread) == 11 + Len(data) + polls + 3 + nread

\* C19 as stated: after a completed, fault-free transceive the bit length
\* is (fifo_level-1)*8 + last_bits when last_bits # 0 and fifo_level*8
\* otherwise, and exactly min(fifo_level, 16) bytes are drained and
\* returned, for every fifo_level, 0 included
C19_Drain_AsStated ==
    \A k \in 1..Len(cw) :
        CleanTransceive(k)
        => /\ cw[k].back_length = StatedBits(cw[k].level, cw[k].ctrl)
           /\ Len(cw[k].back_data)
                 = (IF cw[k].level > 16 THEN 16 ELSE cw[k].level)
           /\ Len(cw[k].back_data) <= 16

\* C19: after a completed, fault-free transceive the bit length is
\* (fifo_level-1)*8 + last_bits when last_bits # 0 and fifo_level*8
\* otherwise; the bytes drained and returned are min(fifo_level, 16) when
\* fifo_level is at least 1, and one byte when fifo_level is 0
C19_Drain ==
    \A k \in 1..Len(cw) :
        CleanTransceive(k)
        => /\ cw[k].back_length = StatedBits(cw[k].level, cw[k].ctrl)
           /\ Len(cw[k].back_data)
                 = (IF cw[k].level = 0 THEN 1
                    ELSE IF cw[k].level > 16 THEN 16 ELSE cw[k].level)
           /\ Len(cw[k].back_data) <= 16
           /\ (op.name = "card_write")
                 => bus.xfer = TransceiveXfers(cw[k].data, cw[k].polls,
                                               Len(cw[k].back_data))

\* C19 happens: a clean transceive found the FIFO empty with a last-bits
\* field set, and one byte was drained
C19_Witness ==
    /\ pc = "done"
    /\ op.name = "card_write"
    /\ CleanTransceive(1)
    /\ cw[1].level = 0
    /\ BitAnd(cw[1].ctrl, 7) = 3
    /\ Len(cw[1].back_data) = 1

\* C20: card_write takes the timeout path (no read of the error register,
\* no drain of the FIFO, an empty response) only if none of its polls
\* showed the command's wait-for bit; a command whose wait-for bit first
\* shows on the last poll of the budget is treated as completed
C20_TimeoutOnlyIfNeverSeen ==
    \A k \in 1..Len(cw) :
        (cw[k].command \in Polled /\ cw[k].i = 0)
        => /\ BitAnd(cw[k].n, irq_wait_of(cw[k].command)) = 0
           /\ BitAnd(Shown(cw[k].stream), irq_wait_of(cw[k].command)) = 0

====
